---- MODULE Spec2Model ----
(***************************************************************************)
(* A model of src/src/tax_sale_states.py: the extraction of records from   *)
(* the parsed markup (TaxSaleStates), the exporters and the fetch loop of  *)
(* MainController, and the workbook synthesis of WorkbookController.       *)
(*                                                                         *)
(* A Python string is modelled as a sequence of fragments.  A fragment is  *)
(* one whitespace character (SP), one colon (COLON), or a run of text that *)
(* neither starts nor ends with whitespace or a colon.  Concatenation (an  *)
(* f-string) is \o, the empty string is << >>.                             *)
(***************************************************************************)
EXTENDS Integers, Sequences, FiniteSets, TLC

VARIABLES
    pc,                 \* position of the modelled call chain
    state_headings,     \* parse: the texts of the selected heading nodes
    table_notes,        \* parse: the selected table/notes content nodes
    data,               \* model.data: the records (<< >> stands for None before parse)
    error,              \* the exception that left the call chain, or "none"
    csv_file,           \* rows written by write_csv
    json_file,          \* objects written by write_json
    markdown_file,      \* rows written by write_markdown
    was_theme_updated,  \* WorkbookController.was_theme_updated
    theme_xml,          \* openpyxl.writer.theme.theme_xml
    excel_theme_xml,    \* openpyxl.writer.excel.theme_xml
    updates,            \* history: number of update_theme calls
    constructions,      \* history: number of WorkbookController() calls
    first_theme,        \* history: theme_xml after the first construction
    key_title,          \* create_workbook: the schema argument
    records,            \* create_workbook: the data argument
    table_name,         \* create_workbook: the table_name argument
    sheet,              \* the worksheet: cells and the append cursor
    table,              \* the Table added to the sheet (ref and autoFilter)
    zip_file,           \* fix_workbook_mime_type: entries of the input archive
    buffer,             \* fix_workbook_mime_type: entries of the output archive
    frames,             \* fetch_markup: Python frames on the call stack
    requests,           \* history: number of session.get calls
    failures,           \* history: number of non-success responses
    response,           \* fetch_markup: the response of the last session.get
    markup              \* model.markup: the text fetch_markup returned

vars == <<pc, state_headings, table_notes, data, error, csv_file, json_file,
          markdown_file, was_theme_updated, theme_xml, excel_theme_xml,
          updates, constructions, first_theme, key_title, records,
          table_name, sheet, table, zip_file, buffer, frames, requests, failures, response,
          markup>>

parseVars == <<state_headings, table_notes, data, csv_file, json_file,
               markdown_file>>
themeVars == <<was_theme_updated, theme_xml, excel_theme_xml, updates,
               constructions, first_theme>>
workbookVars == <<key_title, records, table_name, sheet, table>>
zipVars == <<zip_file, buffer>>
fetchVars == <<frames, requests, failures, response, markup>>

(***************************************************************************)
(* Bounds of the model.                                                    *)
(***************************************************************************)
MaxHeadings == 2
MaxNodes == 4
MaxThemeTokens == 2
MaxConstructions == 3
MaxColumns == 5
MaxRecords == 3
MaxEntries == 4

(***************************************************************************)
(* Strings.                                                                *)
(***************************************************************************)
SP == " "
COLON == ":"

\* The string made of the single text run w.
Str(w) == <<w>>

RECURSIVE lstrip(_)
\* str.lstrip(): leading whitespace removed.
lstrip(s) ==
    IF s # << >> /\ Head(s) = SP THEN lstrip(Tail(s)) ELSE s

RECURSIVE rstrip(_, _)
\* str.rstrip(ch): every trailing ch removed.
rstrip(s, ch) ==
    IF s # << >> /\ s[Len(s)] = ch THEN rstrip(SubSeq(s, 1, Len(s) - 1), ch)
    ELSE s

\* str.strip(): leading and trailing whitespace removed.
strip(s) == rstrip(lstrip(s), SP)

\* str.removeprefix("NOTES:").
removeprefix_notes(s) ==
    IF Len(s) >= 2 /\ s[1] = "NOTES" /\ s[2] = COLON
    THEN SubSeq(s, 3, Len(s))
    ELSE s

(***************************************************************************)
(* Dictionaries.  A dict is the sequence of its [k, v] items in insertion  *)
(* order; assigning to a key that is present keeps its position.           *)
(***************************************************************************)
Keys(d) == [i \in 1..Len(d) |-> d[i].k]

Has(d, key) == \E i \in 1..Len(d) : d[i].k = key

Get(d, key) == d[CHOOSE i \in 1..Len(d) : d[i].k = key].v

Put(d, key, value) ==
    IF Has(d, key)
    THEN [i \in 1..Len(d) |-> IF d[i].k = key THEN [k |-> key, v |-> value]
                              ELSE d[i]]
    ELSE Append(d, [k |-> key, v |-> value])

RECURSIVE Update(_, _)
\* {**d, **other}: the items of other assigned to d in order.
Update(d, other) ==
    IF other = << >> THEN d
    ELSE Update(Put(d, Head(other).k, Head(other).v), Tail(other))

(***************************************************************************)
(* The schema.                                                             *)
(***************************************************************************)
KEY_TITLE == <<
    [k |-> Str("State"), v |-> Str("State")],
    [k |-> Str("Type"), v |-> Str("Type")],
    [k |-> Str("Bidding Process"), v |-> Str("Bidding process")],
    [k |-> Str("Frequency"), v |-> Str("Frequency")],
    [k |-> Str("Interest Rate / Penalty"), v |-> Str("Interest rate / penalty")],
    [k |-> Str("Redemption Period"), v |-> Str("Redemption period")],
    [k |-> Str("Online Auction"), v |-> Str("Online auction")],
    [k |-> Str("Over the Counter"), v |-> Str("Over the counter")],
    [k |-> Str("Statute"), v |-> Str("Statute")],
    [k |-> Str("Notes"), v |-> Str("Notes")],
    [k |-> Str("Description"), v |-> Str("Description")] >>

\* self.titles = key_title.values()
titles == [i \in 1..Len(KEY_TITLE) |-> KEY_TITLE[i].v]

\* self.title_title = {title: title for title in titles}
title_title == [i \in 1..Len(titles) |-> [k |-> titles[i], v |-> titles[i]]]

(***************************************************************************)
(* TaxSaleStates: the extraction.                                          *)
(*                                                                         *)
(* A content node is [rows, text]: rows is what select("tr") and then      *)
(* select("td") give (a sequence of rows, each the sequence of its cells'  *)
(* texts), text is what get_text() gives.                                  *)
(***************************************************************************)

\* add_missing_keys
add_missing_keys(row) ==
    LET RECURSIVE fill(_, _)
        fill(r, i) ==
            IF i > Len(titles) THEN r
            ELSE fill(IF Has(r, titles[i]) THEN r ELSE Put(r, titles[i], << >>),
                      i + 1)
    IN  fill(row, 1)

\* The title a raw key is stored under (line 288).
title_of(key) == IF Has(KEY_TITLE, key) THEN Get(KEY_TITLE, key) ELSE key

RECURSIVE parse_rows(_, _)
\* The loop of parse_table over the rows left, result being the dict so far.
parse_rows(rows, result) ==
    IF rows = << >> THEN result
    ELSE LET cells == Head(rows)
         IN  IF Len(cells) < 2 THEN parse_rows(Tail(rows), result)
             ELSE LET key == rstrip(strip(cells[1]), COLON)
                      value == strip(cells[2])
                  IN  IF Len(key) <= 0 /\ Len(value) <= 0
                      THEN parse_rows(Tail(rows), result)
                      ELSE parse_rows(Tail(rows),
                                      Put(result, title_of(key), value))

\* parse_table
parse_table(node) == parse_rows(node.rows, << >>)

\* The description parse takes from a notes node (line 307).
notes_text(node) == lstrip(removeprefix_notes(strip(node.text)))

\* The record parse assembles for one (heading, table, notes) (lines 309-313).
make_item(state, table_items, description) ==
    add_missing_keys(
        Put(Update(<< [k |-> Str("State"), v |-> state] >>, table_items),
            Str("Description"), description))

\* The fill value None of zip_longest; a node that is there is << node >>.
NoneNode == << >>

\* Mutant of zip_longest: two independent iterators, so that every node is
\* paired with itself.
zip_longest_two_iterators(nodes) ==
    [j \in 1..Len(nodes) |-> [table |-> nodes[j], notes |-> << nodes[j] >>]]

\* itertools.zip_longest(it, it) over ONE iterator: consecutive nodes are
\* paired, a trailing unpaired node gets the partner None.
zip_longest(nodes) ==
    [j \in 1..((Len(nodes) + 1) \div 2) |->
        [table |-> nodes[2 * j - 1],
         notes |-> IF 2 * j <= Len(nodes) THEN << nodes[2 * j] >>
                   ELSE NoneNode]]

RECURSIVE parse_loop(_, _, _, _)
\* The for loop of parse from pair i + 1 on; the result is the exception
\* raised ("none" when the loop ends) and the items appended so far.
parse_loop(headings, pairs, i, items) ==
    IF i >= Len(pairs) THEN [error |-> "none", items |-> items]
    ELSE IF i >= Len(headings)
         THEN [error |-> "IndexError", items |-> items]
    ELSE IF pairs[i + 1].notes = NoneNode
         THEN [error |-> "AttributeError", items |-> items]
    ELSE parse_loop(headings, pairs, i + 1,
                    Append(items,
                           make_item(strip(headings[i + 1]),
                                     parse_table(pairs[i + 1].table),
                                     notes_text(pairs[i + 1].notes[1]))))

\* parse: what the call does, as [error, items].
parse(headings, nodes) == parse_loop(headings, zip_longest(nodes), 0, << >>)

(***************************************************************************)
(* The exporters.                                                          *)
(***************************************************************************)

\* csv.DictWriter(fieldnames)._dict_to_list: ValueError when the row has a
\* key that is no field name (extrasaction="raise"), else the values in
\* field-name order, "" for a key the row lacks.
dict_to_list(fieldnames, row) ==
    IF \E i \in 1..Len(row) : ~(\E j \in 1..Len(fieldnames) : fieldnames[j] = row[i].k)
    THEN [error |-> "ValueError", cells |-> << >>]
    ELSE [error |-> "none",
          cells |-> [j \in 1..Len(fieldnames) |->
                        IF Has(row, fieldnames[j]) THEN Get(row, fieldnames[j])
                        ELSE << >>]]

RECURSIVE writerows(_, _, _)
\* DictWriter.writerows: the rows are written one by one until one raises.
writerows(fieldnames, rows, written) ==
    IF rows = << >> THEN [error |-> "none", file |-> written]
    ELSE LET r == dict_to_list(fieldnames, Head(rows))
         IN  IF r.error # "none" THEN [error |-> r.error, file |-> written]
             ELSE writerows(fieldnames, Tail(rows), Append(written, r.cells))

\* write_csv: writeheader, then writerows.
write_csv(fieldnames, rows) == writerows(fieldnames, rows, << fieldnames >>)

\* write_json: json.dump of the list of dicts, each object's members in the
\* dict's own order.
write_json(rows) == [i \in 1..Len(rows) |-> rows[i]]

\* write_markdown: markdown_table(data) refuses an empty list and dicts whose
\* keys are not those of the first; the header and every row follow the
\* first dict's key order.
write_markdown(rows) ==
    IF rows = << >> THEN [error |-> "ValueError", file |-> << >>]
    ELSE LET header == Keys(rows[1])
         IN  IF \E i \in 1..Len(rows) : \E j \in 1..Len(rows[i]) :
                    ~Has(rows[1], rows[i][j].k)
             THEN [error |-> "ValueError", file |-> << >>]
             ELSE [error |-> "none",
                   file |-> << header >> \o
                            [i \in 1..Len(rows) |->
                                [j \in 1..Len(header) |-> Get(rows[i], header[j])]]]

(***************************************************************************)
(* The documents the extraction is run on.                                 *)
(***************************************************************************)
Row(key, value) == << key, value >>

NodeFull ==
    [rows |-> << Row(<<"Type", COLON>>, <<"Lien">>),
                 Row(<<"Bidding Process", COLON>>, <<"Premium">>),
                 Row(<<"Frequency", COLON>>, <<"Annual">>),
                 Row(<<"Interest Rate / Penalty", COLON>>, <<"12%">>),
                 Row(<<"Redemption Period", COLON>>, <<"3 years">>),
                 Row(<<"Online Auction", COLON>>, <<"Yes">>),
                 Row(<<"Over the Counter", COLON>>, <<"No">>),
                 Row(<<"Statute", COLON>>, <<"40-10">>),
                 Row(<<"Notes", COLON>>, <<"see below">>) >>,
     text |-> <<"Type", COLON, "Lien">>]

NodePartial ==
    [rows |-> << Row(<<SP, "Statute", COLON, SP>>, <<SP, "35-1", SP>>),
                 << <<"Frequency">> >>,
                 Row(<<SP>>, << >>),
                 Row(<<"Type">>, <<"Deed">>) >>,
     text |-> <<SP, "Statute", COLON, "35-1">>]

NodeClash ==
    [rows |-> << Row(<<"State", COLON>>, <<"Guam">>),
                 Row(<<"Description">>, <<"from the table">>) >>,
     text |-> <<"State", COLON, "Guam">>]

NodeExtra ==
    [rows |-> << Row(<<"Type", COLON>>, <<"Lien">>),
                 Row(<<"Zoning", COLON>>, <<"R1">>) >>,
     text |-> <<"Zoning", COLON, "R1">>]

NodeNotes ==
    [rows |-> << >>,
     text |-> <<SP, "NOTES", COLON, SP, "Sales in May", SP>>]

NodePlain ==
    [rows |-> << >>, text |-> <<"No sales">>]

Nodes == {NodeFull, NodePartial, NodeClash, NodeExtra, NodeNotes, NodePlain}

HeadingTexts == { <<SP, "Alabama", SP>>, <<"Texas">> }

SeqsUpTo(S, n) == UNION {[1..m -> S] : m \in 0..n}

\* No response received yet.
NoResponse == [status_code |-> 0, text |-> << >>]

\* The active sheet of Workbook(): no cell, the append cursor before row 1,
\* no column width, the selection on A1.
NewSheet == [cells |-> << >>, current_row |-> 0, widths |-> << >>,
             activeCell |-> [column |-> <<"A">>, row |-> 1]]

(***************************************************************************)
(* The extraction and the exports, in the order of MainController.build.   *)
(***************************************************************************)
IdleTheme ==
    /\ was_theme_updated = FALSE
    /\ theme_xml = << >>
    /\ excel_theme_xml = << >>
    /\ updates = 0
    /\ constructions = 0
    /\ first_theme = << >>

IdleWorkbook ==
    /\ key_title = << >>
    /\ records = << >>
    /\ table_name = << >>
    /\ sheet = NewSheet
    /\ table = << >>

IdleZip ==
    /\ zip_file = << >>
    /\ buffer = << >>

IdleFetch ==
    /\ frames = 0
    /\ requests = 0
    /\ failures = 0
    /\ response = NoResponse
    /\ markup = << >>

IdleParse ==
    /\ state_headings = << >>
    /\ table_notes = << >>
    /\ data = << >>
    /\ csv_file = << >>
    /\ json_file = << >>
    /\ markdown_file = << >>

InitParse ==
    /\ pc = "parse"
    /\ error = "none"
    /\ state_headings \in SeqsUpTo(HeadingTexts, MaxHeadings)
    /\ table_notes \in SeqsUpTo(Nodes, MaxNodes)
    /\ data = << >>
    /\ csv_file = << >>
    /\ json_file = << >>
    /\ markdown_file = << >>
    /\ IdleTheme /\ IdleWorkbook /\ IdleZip /\ IdleFetch

\* model.parse()
Parse ==
    /\ pc = "parse"
    /\ LET r == parse(state_headings, table_notes)
       IN  /\ error' = r.error
           /\ data' = IF r.error = "none" THEN r.items ELSE data
           /\ pc' = IF r.error = "none" THEN "write_csv" ELSE "raised"
    /\ UNCHANGED <<state_headings, table_notes, csv_file, json_file, markdown_file>>
    /\ UNCHANGED <<themeVars, workbookVars, zipVars, fetchVars>>

\* self.write_csv(model)
WriteCsv ==
    /\ pc = "write_csv"
    /\ LET r == write_csv(titles, data)
       IN  /\ csv_file' = r.file
           /\ error' = r.error
           /\ pc' = IF r.error = "none" THEN "write_json" ELSE "raised"
    /\ UNCHANGED <<state_headings, table_notes, data, json_file, markdown_file>>
    /\ UNCHANGED <<themeVars, workbookVars, zipVars, fetchVars>>

\* self.write_json(model)
WriteJson ==
    /\ pc = "write_json"
    /\ json_file' = write_json(data)
    /\ pc' = "write_markdown"
    /\ UNCHANGED <<state_headings, table_notes, data, csv_file, markdown_file, error>>
    /\ UNCHANGED <<themeVars, workbookVars, zipVars, fetchVars>>

\* self.write_markdown(model)
WriteMarkdown ==
    /\ pc = "write_markdown"
    /\ LET r == write_markdown(data)
       IN  /\ markdown_file' = r.file
           /\ error' = r.error
           /\ pc' = IF r.error = "none" THEN "built" ELSE "raised"
    /\ UNCHANGED <<state_headings, table_notes, data, csv_file, json_file>>
    /\ UNCHANGED <<themeVars, workbookVars, zipVars, fetchVars>>

NextParse == Parse \/ WriteCsv \/ WriteJson \/ WriteMarkdown

SpecParse == InitParse /\ [][NextParse]_vars

(***************************************************************************)
(* Claims about the extraction and the exports (SpecParse).                *)
(***************************************************************************)
H == Len(state_headings)
M == Len(table_notes)

\* parse has returned its list (the state right after the call).
ParseReturned == pc = "write_csv"

\* parse has run and raised.
ParseRaised == pc = "raised" /\ error \in {"IndexError", "AttributeError"}

\* C1, as stated: whatever H and M are, the list parse returns has length H.
C1_LengthIsHeadings == ParseReturned => Len(data) = H

\* C1, amended: when there are exactly two content nodes per heading
\* (M = 2H), parse returns a list of length H.
C1_LengthWhenPaired ==
    (pc # "parse" /\ M = 2 * H) => (~ParseRaised /\ Len(data) = H)

C1_Witness == ParseReturned /\ H = 2 /\ M = 4 /\ Len(data) = 2

\* C2: every record parse returns has the schema's titles as its keys, in
\* schema order.
C2_KeysAreSchema ==
    ParseReturned => \A i \in 1..Len(data) : Keys(data[i]) = titles

\* C3: with an odd number of content nodes (and a heading for every pair)
\* parse does not raise, and the record of the unpaired node has an empty
\* Description.
C3_OddDoesNotRaise ==
    (pc # "parse" /\ M % 2 = 1 /\ H >= (M + 1) \div 2) =>
        /\ ~ParseRaised
        /\ Len(data) = (M + 1) \div 2
        /\ Get(data[Len(data)], Str("Description")) = << >>

\* C4: the i-th record has the i-th heading's trimmed text as State, the
\* i-th table's key/values, and the i-th notes text as Description.
C4_RecordOfPair ==
    ParseReturned =>
        \A i \in 1..Len(data) :
            LET items == parse_table(table_notes[2 * i - 1])
            IN  /\ Get(data[i], Str("State")) = strip(state_headings[i])
                /\ Get(data[i], Str("Description")) = notes_text(table_notes[2 * i])
                /\ \A j \in 1..Len(items) :
                       /\ Has(data[i], items[j].k)
                       /\ Get(data[i], items[j].k) = items[j].v

\* C10: the exports of a non-empty record list do not raise, and each has
\* every record's fields in schema order with the record's values.
C10_ExportsInSchemaOrder ==
    /\ (pc = "raised" /\ data # << >>) => ParseRaised
    /\ pc = "built" =>
        /\ csv_file[1] = titles
        /\ markdown_file[1] = titles
        /\ \A i \in 1..Len(data) :
            /\ Keys(json_file[i]) = titles
            /\ \A j \in 1..Len(titles) :
                /\ csv_file[i + 1][j] = Get(data[i], titles[j])
                /\ json_file[i][j].v = Get(data[i], titles[j])
                /\ markdown_file[i + 1][j] = Get(data[i], titles[j])

(***************************************************************************)
(* WorkbookController: the theme patch.                                    *)
(*                                                                         *)
(* The theme template is a sequence of colour attributes [attr, hex]       *)
(* (the text between them plays no part): val="1F497D" is                  *)
(* [attr |-> "val", hex |-> "1F497D"].                                     *)
(***************************************************************************)

\* The dict color of update_theme, in its order.
color == <<
    [k |-> "1F497D", v |-> "44546A"],
    [k |-> "EEECE1", v |-> "E7E6E6"],
    [k |-> "4F81BD", v |-> "5B9BD5"],
    [k |-> "C0504D", v |-> "ED7D31"],
    [k |-> "9BBB59", v |-> "A5A5A5"],
    [k |-> "8064A2", v |-> "FFC000"],
    [k |-> "4BACC6", v |-> "4472C4"],
    [k |-> "F79646", v |-> "70AD47"],
    [k |-> "0000FF", v |-> "0563C1"],
    [k |-> "800080", v |-> "954F72"] >>

\* xml.replace(f'val="{original}"', f'val="{replacement}"')
replace_val(xml, original, replacement) ==
    [i \in 1..Len(xml) |->
        IF xml[i].attr = "val" /\ xml[i].hex = original
        THEN [attr |-> "val", hex |-> replacement]
        ELSE xml[i]]

RECURSIVE replace_colors(_, _)
\* The for loop of update_theme over the items of color left.
replace_colors(xml, items) ==
    IF items = << >> THEN xml
    ELSE replace_colors(replace_val(xml, Head(items).k, Head(items).v),
                        Tail(items))

\* update_theme: the value assigned to theme.theme_xml and excel.theme_xml.
update_theme(xml) == replace_colors(xml, color)

\* Mutant of init_updates_theme: the flag is not consulted.
init_updates_theme_always(flag) == TRUE

\* The guard of __init__ (line 86).
init_updates_theme(flag) == ~flag

ThemeTokens ==
    {[attr |-> "val", hex |-> color[i].k] : i \in 1..Len(color)}
        \cup {[attr |-> "val", hex |-> "44546A"],
              [attr |-> "val", hex |-> "FFFFFF"],
              [attr |-> "lastClr", hex |-> "1F497D"]}

InitTheme ==
    /\ pc = "theme"
    /\ error = "none"
    /\ was_theme_updated = FALSE
    /\ theme_xml \in SeqsUpTo(ThemeTokens, MaxThemeTokens)
    /\ excel_theme_xml = theme_xml
    /\ updates = 0
    /\ constructions = 0
    /\ first_theme = << >>
    /\ IdleParse /\ IdleWorkbook /\ IdleZip /\ IdleFetch

\* WorkbookController()
Construct ==
    /\ pc = "theme"
    /\ constructions < MaxConstructions
    /\ constructions' = constructions + 1
    /\ IF init_updates_theme(was_theme_updated)
       THEN /\ theme_xml' = update_theme(theme_xml)
            /\ excel_theme_xml' = update_theme(theme_xml)
            /\ updates' = updates + 1
            /\ was_theme_updated' = TRUE
       ELSE UNCHANGED <<theme_xml, excel_theme_xml, updates, was_theme_updated>>
    /\ first_theme' = IF constructions = 0 THEN theme_xml' ELSE first_theme
    /\ UNCHANGED <<pc, error, parseVars, workbookVars, zipVars, fetchVars>>

NextTheme == Construct

SpecTheme == InitTheme /\ [][NextTheme]_vars

\* C5: after k >= 1 constructions update_theme has been applied exactly once,
\* the flag is set, no val attribute holds a colour of the old palette, and
\* the theme is the one the first construction left.
C5_ThemePatchedOnce ==
    constructions >= 1 =>
        /\ updates = 1
        /\ was_theme_updated
        /\ theme_xml = first_theme
        /\ excel_theme_xml = first_theme
        /\ \A i \in 1..Len(theme_xml) :
               theme_xml[i].attr = "val" =>
                   ~(\E c \in 1..Len(color) : color[c].k = theme_xml[i].hex)

C5_Witness ==
    /\ constructions = 3
    /\ updates = 1
    /\ \E i \in 1..Len(theme_xml) : theme_xml[i] = [attr |-> "val", hex |-> "0563C1"]

(***************************************************************************)
(* WorkbookController.create_workbook.                                     *)
(*                                                                         *)
(* A cell is [value, number_format, data_type]; the sheet's cells are a    *)
(* function of <<row, column>>.  A datetime.datetime value is the string   *)
(* of its text preceded by the fragment "datetime.datetime".               *)
(***************************************************************************)
FORMAT_TEXT == <<"@">>
ISO_8601_NUMBER_FORMAT == <<"yyyy-mm-ddThh:MM:ss">>
FORMAT_GENERAL == <<"General">>

\* isinstance(value, datetime.datetime)
is_datetime(value) == Len(value) = 2 /\ value[1] = "datetime.datetime"

Alphabet == <<"A", "B", "C", "D", "E", "F", "G", "H", "I", "J", "K", "L", "M",
              "N", "O", "P", "Q", "R", "S", "T", "U", "V", "W", "X", "Y", "Z">>

RECURSIVE get_column_letter(_)
\* openpyxl.utils.get_column_letter: 1 -> A, 26 -> Z, 27 -> AA.
get_column_letter(c) ==
    IF c <= 0 THEN << >>
    ELSE get_column_letter((c - 1) \div 26) \o << Alphabet[((c - 1) % 26) + 1] >>

Max(S, default) == IF S = {} THEN default ELSE CHOOSE x \in S : \A y \in S : y <= x

\* sheet.max_row and sheet.max_column
max_row(sh) == Max({rc[1] : rc \in DOMAIN sh.cells}, 1)
max_column(sh) == Max({rc[2] : rc \in DOMAIN sh.cells}, 1)

\* The cell the loop of lines 170-184 writes for value.
data_cell(value) ==
    IF is_datetime(value)
    THEN [value |-> value, number_format |-> ISO_8601_NUMBER_FORMAT, data_type |-> "d"]
    ELSE [value |-> value, number_format |-> FORMAT_TEXT, data_type |-> "s"]

\* Lines 169-184: the header and the data rows, written cell by cell.
write_rows(sh, keys, rows) ==
    LET written == {<<r, c>> : r \in 1..Len(rows), c \in 1..Len(keys)}
    IN  [sh EXCEPT
            !.cells = [rc \in written |->
                          data_cell(IF Has(rows[rc[1]], keys[rc[2]])
                                    THEN Get(rows[rc[1]], keys[rc[2]])
                                    ELSE << >>)],
            !.current_row = IF written = {} THEN sh.current_row ELSE Len(rows)]

\* Mutant of total_row: the two assignments in the other order, so that in a
\* single column the label replaces the formula.
total_row_label_last(keys, column_titles, name) ==
    LET blank == [c \in 1..Len(keys) |-> << >>]
        counted == [blank EXCEPT ![Len(keys)] =
                       <<"=SUBTOTAL(103,">> \o name \o <<"[">>
                           \o column_titles[Len(column_titles)] \o <<"])">>]
    IN  [counted EXCEPT ![1] = <<"Total">>]

\* Lines 186-188, for at least one key: blanks, "Total" assigned to [0], then
\* the formula assigned to [-1].
total_row(keys, column_titles, name) ==
    LET blank == [c \in 1..Len(keys) |-> << >>]
        labelled == [blank EXCEPT ![1] = <<"Total">>]
    IN  [labelled EXCEPT ![Len(keys)] =
            <<"=SUBTOTAL(103,">> \o name \o <<"[">>
                \o column_titles[Len(column_titles)] \o <<"])">>]

\* The cell sheet.append makes of a value: a string that starts with "=" and
\* is longer than one character is a formula.
appended_cell(value) ==
    [value |-> value, number_format |-> FORMAT_GENERAL,
     data_type |-> IF Len(value) > 0 /\ value[1] = "=SUBTOTAL(103," THEN "f" ELSE "s"]

\* sheet.append(row): the row after the append cursor.
append(sh, row) ==
    LET r == sh.current_row + 1
    IN  [sh EXCEPT
            !.cells = [rc \in DOMAIN sh.cells \cup {<<r, c>> : c \in 1..Len(row)} |->
                          IF rc[1] = r THEN appended_cell(row[rc[2]])
                          ELSE sh.cells[rc]],
            !.current_row = r]

\* Line 200-204: the table's columns.
table_columns(column_titles) ==
    [h \in 1..Len(column_titles) |->
        [id |-> h, name |-> column_titles[h],
         totalsRowLabel |-> IF h = 1 THEN <<"Total">> ELSE << >>,
         totalsRowFunction |-> IF h = Len(column_titles) THEN <<"count">> ELSE << >>]]

\* f"A1:{max_column_letter}{max_row}"
table_ref(column_letter, row) ==
    [first |-> "A1", last_column |-> column_letter, last_row |-> row]

\* Mutant of auto_filter_ref: the totals row is not left out.
auto_filter_ref_with_totals(column_letter, row) ==
    [first |-> "A1", last_column |-> column_letter, last_row |-> row]

\* f"A1:{max_column_letter}{max_row - 1}"
auto_filter_ref(column_letter, row) ==
    [first |-> "A1", last_column |-> column_letter, last_row |-> row - 1]

\* len(str(value)) of the fragments the modelled workbooks hold.
fragment_len(f) ==
    CASE f = "State" -> 5
      [] f = "Type" -> 4
      [] f = "Bidding process" -> 15
      [] f = "Frequency" -> 9
      [] f = "Interest rate / penalty" -> 23
      [] f = "Lien" -> 4
      [] f = "Total" -> 5
      [] f = "=SUBTOTAL(103," -> 14
      [] f = "TaxLienCertificateStates" -> 24
      [] f = "TaxDeedStates" -> 13
      [] f = "[" -> 1
      [] f = "])" -> 2
      [] f = "datetime.datetime" -> 0
      [] f = "2024-05-01 09:00:00" -> 19
      [] OTHER -> 1

RECURSIVE str_len(_)
str_len(value) ==
    IF value = << >> THEN 0 ELSE fragment_len(Head(value)) + str_len(Tail(value))

\* autosize_columns: every column as wide as its longest value.
autosize_columns(sh) ==
    [sh EXCEPT !.widths =
        [c \in 1..max_column(sh) |->
            Max({str_len(sh.cells[rc].value) : rc \in {x \in DOMAIN sh.cells : x[2] = c}}, 0)]]

\* create_workbook from line 169 on, for at least one key: the sheet and the
\* table of the workbook returned.
create_workbook(schema, rows, name) ==
    LET keys == Keys(schema)
        column_titles == [i \in 1..Len(schema) |-> schema[i].v]
        filled == append(write_rows(NewSheet, keys, << schema >> \o rows),
                         total_row(keys, column_titles, name))
        letter == get_column_letter(max_column(filled))
        last == max_row(filled)
        sized == autosize_columns(filled)
    IN  [sheet |-> [sized EXCEPT !.activeCell = [column |-> <<"A">>, row |-> last + 1]],
         table |-> [displayName |-> name,
                    ref |-> table_ref(letter, last),
                    autoFilter |-> auto_filter_ref(letter, last),
                    totalsRowShown |-> TRUE,
                    totalsRowCount |-> 1,
                    tableColumns |-> table_columns(column_titles)]]

\* The records the modelled workbooks are made of, for a schema.
RecordFull(schema) == [i \in 1..Len(schema) |-> [k |-> schema[i].k, v |-> <<"Lien">>]]
RecordSparse(schema) == [i \in 1..(IF Len(schema) = 0 THEN 0 ELSE 1) |-> RecordFull(schema)[i]]
RecordDated(schema) ==
    [i \in 1..Len(schema) |->
        [k |-> schema[i].k,
         v |-> IF i = 1 THEN <<"datetime.datetime", "2024-05-01 09:00:00">> ELSE << >>]]

InitWorkbook ==
    /\ pc = "create_workbook"
    /\ error = "none"
    /\ \E columns \in 0..MaxColumns : key_title = SubSeq(KEY_TITLE, 1, columns)
    /\ records \in SeqsUpTo({RecordFull(key_title), RecordSparse(key_title),
                             RecordDated(key_title)}, MaxRecords)
    /\ table_name \in { <<"TaxLienCertificateStates">>, <<"TaxDeedStates">> }
    /\ sheet = NewSheet
    /\ table = << >>
    /\ IdleParse /\ IdleTheme /\ IdleZip /\ IdleFetch

\* WorkbookController.create_workbook(key_title, data, ..., table_name)
CreateWorkbook ==
    /\ pc = "create_workbook"
    /\ IF Len(key_title) = 0
       THEN \* total_row[0] = "Total" on an empty list
            /\ error' = "IndexError"
            /\ pc' = "raised"
            /\ sheet' = write_rows(NewSheet, << >>, << key_title >> \o records)
            /\ UNCHANGED table
       ELSE LET w == create_workbook(key_title, records, table_name)
            IN  /\ sheet' = w.sheet
                /\ table' = w.table
                /\ pc' = "created"
                /\ UNCHANGED error
    /\ UNCHANGED <<key_title, records, table_name>>
    /\ UNCHANGED <<parseVars, themeVars, zipVars, fetchVars>>

NextWorkbook == CreateWorkbook

SpecWorkbook == InitWorkbook /\ [][NextWorkbook]_vars

(***************************************************************************)
(* Claims about create_workbook (SpecWorkbook).                            *)
(***************************************************************************)
N == Len(records)
C == Len(key_title)

RECURSIVE column_index(_)
\* The number of a column letter: A -> 1, Z -> 26, AA -> 27.
column_index(letters) ==
    IF letters = << >> THEN 0
    ELSE 26 * column_index(SubSeq(letters, 1, Len(letters) - 1))
             + (CHOOSE i \in 1..26 : Alphabet[i] = letters[Len(letters)])

\* C6: the table covers rows 1..N+2 and columns 1..C, the autofilter rows
\* 1..N+1 and columns 1..C.
C6_TableAndFilterRegion ==
    pc = "created" =>
        /\ table.ref.first = "A1"
        /\ column_index(table.ref.last_column) = C
        /\ table.ref.last_row = N + 2
        /\ table.autoFilter.first = "A1"
        /\ column_index(table.autoFilter.last_column) = C
        /\ table.autoFilter.last_row = N + 1

C6_Witness ==
    /\ pc = "created"
    /\ N = 3
    /\ C = 5
    /\ table.ref = [first |-> "A1", last_column |-> <<"E">>, last_row |-> 5]
    /\ table.autoFilter = [first |-> "A1", last_column |-> <<"E">>, last_row |-> 4]

\* The formula of the aggregate row: =SUBTOTAL(103,<table>[<last title>]).
SubtotalFormula ==
    <<"=SUBTOTAL(103,">> \o table_name \o <<"[">> \o key_title[C].v \o <<"])">>

\* The aggregate row is row N + 2, the last row of the sheet, right after
\* the header and the N data rows.
TotalRowPlaced ==
    /\ max_row(sheet) = N + 2
    /\ DOMAIN sheet.cells = (1..(N + 2)) \X (1..C)
    /\ \A r \in 1..(N + 1) : \A c \in 1..C :
           sheet.cells[<<r, c>>].number_format # FORMAT_GENERAL
    /\ \A c \in 1..C : sheet.cells[<<N + 2, c>>].number_format = FORMAT_GENERAL

\* C7, as stated: for every C >= 1 the aggregate row is row N + 2, its first
\* cell holds "Total", its last cell the formula, the cells between are blank.
C7_TotalRow ==
    pc = "created" =>
        /\ TotalRowPlaced
        /\ sheet.cells[<<N + 2, 1>>].value = <<"Total">>
        /\ sheet.cells[<<N + 2, C>>].value = SubtotalFormula
        /\ \A c \in 2..(C - 1) : sheet.cells[<<N + 2, c>>].value = << >>

\* C7, amended: that holds for C >= 2; with a single column the one cell of
\* the aggregate row holds the formula, which replaced the label.
C7_TotalRowTwoColumns ==
    pc = "created" =>
        /\ TotalRowPlaced
        /\ sheet.cells[<<N + 2, C>>].value = SubtotalFormula
        /\ C >= 2 => sheet.cells[<<N + 2, 1>>].value = <<"Total">>
        /\ \A c \in 2..(C - 1) : sheet.cells[<<N + 2, c>>].value = << >>

C7_Witness ==
    /\ pc = "created"
    /\ N = 2
    /\ C = 4
    /\ sheet.cells[<<4, 1>>].value = <<"Total">>
    /\ sheet.cells[<<4, 2>>].value = << >>
    /\ sheet.cells[<<4, 3>>].value = << >>
    /\ sheet.cells[<<4, 4>>].value =
           <<"=SUBTOTAL(103,", "TaxDeedStates", "[", "Frequency", "])">>

(***************************************************************************)
(* WorkbookController.fix_workbook_mime_type.                              *)
(*                                                                         *)
(* An archive is the sequence of its entries [name, bytes], in the order   *)
(* of namelist(); the names of an archive are distinct.                    *)
(***************************************************************************)
FIRST_NAMES == <<"[Content_Types].xml", "xl/workbook.xml", "xl/styles.xml">>

InSeq(x, seq) == \E i \in 1..Len(seq) : seq[i] = x

\* zip_file.namelist()
namelist(archive) == [i \in 1..Len(archive) |-> archive[i].name]

\* Mutant of remaining_names: the first names are not filtered out.
remaining_names_unfiltered(names) == names

\* Line 120: [name for name in names if name not in FIRST_NAMES]
remaining_names(names) == SelectSeq(names, LAMBDA name : ~InSeq(name, FIRST_NAMES))

RECURSIVE copy_entries(_, _, _)
\* Lines 124-129: each name is opened and written to the new archive; a name
\* the archive lacks raises KeyError in open, which is passed over.
copy_entries(archive, ordered_names, written) ==
    IF ordered_names = << >> THEN written
    ELSE LET name == Head(ordered_names)
         IN  IF ~InSeq(name, namelist(archive))
             THEN copy_entries(archive, Tail(ordered_names), written)
             ELSE LET file == archive[CHOOSE i \in 1..Len(archive) : archive[i].name = name]
                  IN  copy_entries(archive, Tail(ordered_names),
                                   Append(written, [name |-> file.name, bytes |-> file.bytes]))

\* fix_workbook_mime_type: the entries of the buffer returned.
fix_workbook_mime_type(archive) ==
    copy_entries(archive, FIRST_NAMES \o remaining_names(namelist(archive)), << >>)

EntryNames ==
    {FIRST_NAMES[i] : i \in 1..Len(FIRST_NAMES)}
        \cup {"xl/worksheets/sheet1.xml", "docProps/core.xml"}

EntryBytes == {"deflated-a", "deflated-b"}

Entries == [name : EntryNames, bytes : EntryBytes]

InitZip ==
    /\ pc = "fix_workbook_mime_type"
    /\ error = "none"
    /\ zip_file \in SeqsUpTo(Entries, MaxEntries)
    /\ \A i, j \in 1..Len(zip_file) : zip_file[i].name = zip_file[j].name => i = j
    /\ buffer = << >>
    /\ IdleParse /\ IdleTheme /\ IdleWorkbook /\ IdleFetch

\* WorkbookController.fix_workbook_mime_type(file_path)
FixWorkbookMimeType ==
    /\ pc = "fix_workbook_mime_type"
    /\ buffer' = fix_workbook_mime_type(zip_file)
    /\ pc' = "fixed"
    /\ UNCHANGED <<zip_file, error>>
    /\ UNCHANGED <<parseVars, themeVars, workbookVars, fetchVars>>

NextZip == FixWorkbookMimeType

SpecZip == InitZip /\ [][NextZip]_vars

\* The place of a name in the order the claim gives: the three first names
\* in their order, then every other name.
Rank(name) ==
    IF InSeq(name, FIRST_NAMES)
    THEN CHOOSE i \in 1..Len(FIRST_NAMES) : FIRST_NAMES[i] = name
    ELSE Len(FIRST_NAMES) + 1

PositionIn(archive, name) == CHOOSE i \in 1..Len(archive) : archive[i].name = name

\* C8: the output holds every input entry exactly once with its bytes; the
\* first names that exist come first, in their fixed order, then the other
\* entries in their input order; a missing first name is no error.
C8_EntriesReordered ==
    pc = "fixed" =>
        /\ error = "none"
        /\ Len(buffer) = Len(zip_file)
        /\ \A i \in 1..Len(zip_file) :
               Cardinality({j \in 1..Len(buffer) : buffer[j] = zip_file[i]}) = 1
        /\ \A i, j \in 1..Len(buffer) :
               i < j =>
                   /\ Rank(buffer[i].name) <= Rank(buffer[j].name)
                   /\ Rank(buffer[i].name) = Rank(buffer[j].name) =>
                          /\ Rank(buffer[i].name) = Len(FIRST_NAMES) + 1
                          /\ PositionIn(zip_file, buffer[i].name)
                                 < PositionIn(zip_file, buffer[j].name)

C8_Witness ==
    /\ pc = "fixed"
    /\ namelist(zip_file) = <<"docProps/core.xml", "xl/styles.xml",
                               "xl/worksheets/sheet1.xml", "[Content_Types].xml">>
    /\ namelist(buffer) = <<"[Content_Types].xml", "xl/styles.xml",
                             "docProps/core.xml", "xl/worksheets/sheet1.xml">>

(***************************************************************************)
(* MainController.fetch_markup.                                            *)
(*                                                                         *)
(* The retry is a recursive call (line 407), so every non-success response *)
(* leaves one more frame of fetch_markup on the interpreter's stack.  A    *)
(* call made with RecursionLimit frames on the stack raises                *)
(* RecursionError.                                                         *)
(***************************************************************************)

\* sys.getrecursionlimit(): the interpreter's default, which the program
\* does not change.
RecursionLimit == 1000

\* The frames below the first fetch_markup: <module>, main, run, build.
CallerFrames == 4

\* requests.codes.ok and requests.codes.partial_content
codes_ok == 200
codes_partial_content == 206

StatusCodes == {codes_ok, codes_partial_content, 404, 503}

ResponseTexts == { <<"<html>states</html>">>, <<"<html>unavailable</html>">> }

\* Lines 403-404: the status is a success.
is_success(status_code) ==
    status_code = codes_ok \/ status_code = codes_partial_content

InitFetch ==
    /\ pc = "fetch_markup"
    /\ error = "none"
    /\ frames = CallerFrames + 1
    /\ requests = 0
    /\ failures = 0
    /\ response = NoResponse
    /\ markup = << >>
    /\ IdleParse /\ IdleTheme /\ IdleWorkbook /\ IdleZip

\* One invocation of fetch_markup whose session.get is answered: the text
\* is returned through every frame of fetch_markup, or the invocation
\* sleeps and calls fetch_markup again.
FetchAnswered ==
    /\ pc = "fetch_markup"
    /\ frames + 1 <= RecursionLimit
    /\ \E status_code \in StatusCodes, text \in ResponseTexts :
        /\ response' = [status_code |-> status_code, text |-> text]
        /\ requests' = requests + 1
        /\ IF is_success(status_code)
           THEN /\ markup' = text
                /\ frames' = CallerFrames
                /\ pc' = "fetched"
                /\ UNCHANGED failures
           ELSE /\ failures' = failures + 1
                /\ frames' = frames + 1
                /\ UNCHANGED <<markup, pc>>
    /\ UNCHANGED <<error, parseVars, themeVars, workbookVars, zipVars>>

\* One invocation of fetch_markup whose session.get raises (the timeout of 5
\* seconds, a connection error): the exception leaves build.
FetchFailed ==
    /\ pc = "fetch_markup"
    /\ frames + 1 <= RecursionLimit
    /\ requests' = requests + 1
    /\ error' = "RequestException"
    /\ pc' = "raised"
    /\ frames' = CallerFrames
    /\ UNCHANGED <<failures, response, markup>>
    /\ UNCHANGED <<parseVars, themeVars, workbookVars, zipVars>>

\* One invocation of fetch_markup with no frame left for a call: session.get
\* raises RecursionError, which leaves build.
FetchTooDeep ==
    /\ pc = "fetch_markup"
    /\ frames + 1 > RecursionLimit
    /\ error' = "RecursionError"
    /\ pc' = "raised"
    /\ frames' = CallerFrames
    /\ UNCHANGED <<requests, failures, response, markup>>
    /\ UNCHANGED <<parseVars, themeVars, workbookVars, zipVars>>

NextFetch == FetchAnswered \/ FetchFailed \/ FetchTooDeep

SpecFetch == InitFetch /\ [][NextFetch]_vars

\* C9: however many non-success statuses the source answers, fetch_markup
\* surfaces no failure of its own to the caller, and when it returns it has
\* issued one request more than it got non-success answers and returns the
\* text of the successful response.
C9_RetriesWithoutCap ==
    /\ error # "RecursionError"
    /\ pc = "fetched" =>
        /\ requests = failures + 1
        /\ is_success(response.status_code)
        /\ markup = response.text

====
